---- MODULE Spec2Model ----
(***************************************************************************)
(* Model of mqtt_subscriber_app/subscriber_main.py: an MQTT subscriber     *)
(* that copies every message on roverCommsLog/<device> into one row of     *)
(* the MySQL table mqtt_data_log through a pool of five connections.       *)
(*                                                                         *)
(* Text (str) is a sequence of Unicode code points, bytes a sequence of    *)
(* integers 0..255.  The broker and the database are the environment:      *)
(* the messages delivered, the connect result codes and the behaviour of   *)
(* the database during one insert are chosen nondeterministically.         *)
(***************************************************************************)
EXTENDS Integers, Sequences, FiniteSets, TLC

VARIABLES
    pc,             \* position of the main program (lines 122-139)
    exitStatus,     \* process exit status, -1 while the process runs
    DB_POOL,        \* the global pool (line 30): created or not, free connections
    store,          \* rows of mqtt_data_log, in insertion order
    subscribeCalls, \* topic filters passed to client.subscribe, in call order
    last            \* the most recent callback: its input, log calls, database calls

vars == <<pc, exitStatus, DB_POOL, store, subscribeCalls, last>>

----------------------------------------------------------------------------
(* Bounds of the model *)

\* the table is capped: no message is delivered once it holds MaxRows rows
MaxRows == 2
\* at most MaxSubscribes successful connect callbacks are delivered
MaxSubscribes == 2

----------------------------------------------------------------------------
(* Configuration, lines 8-27 *)

\* "roverCommsLog/"
TOPIC_PREFIX == <<114,111,118,101,114,67,111,109,109,115,76,111,103,47>>
\* the default subscription filter
MQTT_TOPIC == "roverCommsLog/#"
POOL_SIZE == 5

\* numeric values of the logging levels; the root logger is set to INFO
LevelNo(level) ==
    CASE level = "DEBUG" -> 10
      [] level = "INFO" -> 20
      [] level = "WARNING" -> 30
      [] level = "ERROR" -> 40
LOG_LEVEL == 20
Emitted(entry) == LevelNo(entry.level) >= LOG_LEVEL
Log(level, event) == [level |-> level, event |-> event]

----------------------------------------------------------------------------
(* str and bytes primitives used by on_message *)

\* variant: the prefix is looked for anywhere in s (prefix in s)
StartsWith_anywhere(s, prefix) ==
    \E i \in 1..(Len(s) - Len(prefix) + 1) :
        SubSeq(s, i, i + Len(prefix) - 1) = prefix

\* str.startswith
StartsWith(s, prefix) ==
    /\ Len(s) >= Len(prefix)
    /\ SubSeq(s, 1, Len(prefix)) = prefix

\* variant: the slice starts one character early (s[n-1:])
SliceFrom_early(s, n) == SubSeq(s, n, Len(s))

\* s[n:]
SliceFrom(s, n) == SubSeq(s, n + 1, Len(s))

IsCont(b) == b >= 128 /\ b <= 191

\* length of the UTF-8 sequence a lead byte starts, 0 when it starts none
Utf8SeqLen(b) ==
    CASE b <= 127 -> 1
      [] b >= 194 /\ b <= 223 -> 2
      [] b >= 224 /\ b <= 239 -> 3
      [] b >= 240 /\ b <= 244 -> 4
      [] OTHER -> 0

\* the continuation bytes of a sequence of n bytes at the head of b are
\* well formed (no overlong form, no surrogate, nothing above U+10FFFF)
Utf8TailOk(b, n) ==
    /\ \A i \in 2..n : IsCont(b[i])
    /\ (b[1] = 224 => b[2] >= 160)
    /\ (b[1] = 237 => b[2] <= 159)
    /\ (b[1] = 240 => b[2] >= 144)
    /\ (b[1] = 244 => b[2] <= 143)

Utf8CodePoint(b, n) ==
    CASE n = 1 -> b[1]
      [] n = 2 -> (b[1] - 192) * 64 + (b[2] - 128)
      [] n = 3 -> (b[1] - 224) * 4096 + (b[2] - 128) * 64 + (b[3] - 128)
      [] n = 4 -> (b[1] - 240) * 262144 + (b[2] - 128) * 4096
                    + (b[3] - 128) * 64 + (b[4] - 128)

\* variant: the bytes are decoded as Latin-1, one character per byte, which
\* never fails
Utf8Decode_latin1(b) == [ok |-> TRUE, text |-> b]

\* bytes.decode('utf-8'), strict: ok = FALSE stands for UnicodeDecodeError
RECURSIVE Utf8Decode(_)
Utf8Decode(b) ==
    IF b = <<>> THEN [ok |-> TRUE, text |-> <<>>]
    ELSE LET n == Utf8SeqLen(b[1]) IN
         IF n = 0 \/ Len(b) < n THEN [ok |-> FALSE, text |-> <<>>]
         ELSE IF ~Utf8TailOk(b, n) THEN [ok |-> FALSE, text |-> <<>>]
         ELSE LET rest == Utf8Decode(SubSeq(b, n + 1, Len(b))) IN
              IF rest.ok
              THEN [ok |-> TRUE, text |-> <<Utf8CodePoint(b, n)>> \o rest.text]
              ELSE rest

----------------------------------------------------------------------------
(* The environment's inputs.  A message carries its topic and its payload *)
(* as received bytes; for ASCII the bytes of a text are its code points.  *)

\* "otherTopic/x"
TopicOther == <<111,116,104,101,114,84,111,112,105,99,47,120>>
\* "x/roverCommsLog/a": holds the prefix, but not at its start
TopicEmbedded == <<120,47>> \o TOPIC_PREFIX \o <<97>>
\* "roverCommsLog": matched by the filter roverCommsLog/#, lacks the prefix
TopicParent == <<114,111,118,101,114,67,111,109,109,115,76,111,103>>
\* "roverCommsLog/rover_A"
TopicRoverA == TOPIC_PREFIX \o <<114,111,118,101,114,95,65>>
\* "roverCommsLog/a/b"
TopicNested == TOPIC_PREFIX \o <<97,47,98>>

\* b"roverCommsLog/\xff": topic bytes that are not UTF-8
TopicNotUtf8 == TOPIC_PREFIX \o <<255>>

Topics ==
    {TopicOther, TopicEmbedded, TopicParent, TOPIC_PREFIX, TopicRoverA,
     TopicNested, TopicNotUtf8}

\* Payloads: b"" and b"\xff" (not UTF-8) on every topic; b"24.5" on every
\* topic but roverCommsLog/a/b, which carries b" \xc3\xa9" (a space and
\* U+00E9); b"2\xc3" (a truncated sequence) on roverCommsLog/rover_A.
Messages ==
    [topic : Topics, payload : {<<>>, <<255>>}]
    \cup {[topic |-> TopicRoverA, payload |-> <<50,195>>]}
    \cup [topic : Topics \ {TopicNested}, payload : {<<50,52,46,53>>}]
    \cup {[topic |-> TopicNested, payload |-> <<32,195,169>>]}

\* result codes of the connect callback
ResultCodes == 0..5

\* What the database does during one insert_data call:
\*   failAt          the step of the try block that raises, if any
\*   errKind         what str(e) of that exception says (with no free
\*                   connection the exception is the pool's own "pool
\*                   exhausted" instead)
\*   rollbackFail    conn.rollback() raises
\*   connected       what conn.is_connected() returns in the finally block
\*   cursorCloseFail cursor.close() raises
\*   connCloseFail   conn.close() raises (after giving the connection back)
\* Fields that the chosen path never consults are fixed, so that each
\* distinguishable behaviour is listed once; the server reports a missing
\* table or column when the statement is executed, so only execute fails
\* with those texts.
DbBehaviours ==
    { db \in [failAt : {"none", "get", "cursor", "execute", "commit"},
              errKind : {"table_missing", "unknown_column", "other"},
              rollbackFail : BOOLEAN, connected : BOOLEAN,
              cursorCloseFail : BOOLEAN, connCloseFail : BOOLEAN] :
        /\ (db.errKind # "other" => db.failAt = "execute" /\ ~db.rollbackFail)
        /\ (db.rollbackFail => db.failAt \in {"cursor", "execute", "commit"})
        /\ (db.connected => db.failAt # "get")
        /\ (db.cursorCloseFail => db.connected /\ db.failAt # "cursor")
        /\ (db.connCloseFail =>
              db.connected /\ db.failAt # "cursor" /\ ~db.cursorCloseFail) }

Healthy ==
    [failAt |-> "none", errKind |-> "other", rollbackFail |-> FALSE,
     connected |-> TRUE, cursorCloseFail |-> FALSE, connCloseFail |-> FALSE]

----------------------------------------------------------------------------
(* Database functions, lines 33-82 *)

\* variant: the failure is logged and the function returns (no exit)
setup_db_pool_noExit(ok) ==
    IF ok
    THEN [pool |-> [created |-> TRUE, avail |-> POOL_SIZE],
          logs |-> <<Log("INFO", "pool_setup"), Log("INFO", "pool_established")>>,
          exits |-> FALSE, status |-> -1]
    ELSE [pool |-> [created |-> FALSE, avail |-> 0],
          logs |-> <<Log("INFO", "pool_setup"), Log("ERROR", "pool_error")>>,
          exits |-> FALSE, status |-> -1]

\* setup_db_pool: ok says whether MySQLConnectionPool(...) returned.  On an
\* exception the error is logged and exit(1) raises SystemExit, which no
\* handler of the program catches.
setup_db_pool(ok) ==
    IF ok
    THEN [pool |-> [created |-> TRUE, avail |-> POOL_SIZE],
          logs |-> <<Log("INFO", "pool_setup"), Log("INFO", "pool_established")>>,
          exits |-> FALSE, status |-> -1]
    ELSE [pool |-> [created |-> FALSE, avail |-> 0],
          logs |-> <<Log("INFO", "pool_setup"), Log("ERROR", "pool_error")>>,
          exits |-> TRUE, status |-> 1]

Call(op, ok) == [op |-> op, ok |-> ok]

\* the error message test of line 74
IsSchemaError(errKind) == errKind \in {"table_missing", "unknown_column"}

\* variant: the row is durable as soon as execute returns (autocommit)
StoredRows_autocommit(rows, row, executeOk, commitOk) ==
    IF executeOk THEN Append(rows, row) ELSE rows

\* variant: the statement is executed twice before the commit
StoredRows_twice(rows, row, executeOk, commitOk) ==
    IF commitOk THEN Append(Append(rows, row), row) ELSE rows

\* lines 65-66: the row executed in the transaction is in the table once
\* the commit has returned, and only then
StoredRows(rows, row, executeOk, commitOk) ==
    IF commitOk THEN Append(rows, row) ELSE rows

\* lines 80-82: conn.close(), which gives the connection back to the pool,
\* is reached when conn.is_connected() is true and cursor.close() returned
Released(got, connected, cursorCloseRaised) ==
    connected /\ ~cursorCloseRaised

\* insert_data(device_id, value, full_topic) run with avail free connections
\* in the pool, rows in the table and the database behaving as db.
\* Result: the free connections and the rows afterwards, the logger calls,
\* the database calls made (with their outcome) and whether an exception
\* leaves the function.
insert_data(avail, rows, device_id, value, full_topic, db) ==
    LET \* try block, lines 56-67
        got == avail > 0 /\ db.failAt # "get"
        cursorOk == got /\ db.failAt # "cursor"
        executeOk == cursorOk /\ db.failAt # "execute"
        commitOk == executeOk /\ db.failAt # "commit"
        tryCalls ==
            <<Call("get_connection", got)>>
            \o (IF got THEN <<Call("cursor", cursorOk)>> ELSE <<>>)
            \o (IF cursorOk THEN <<Call("execute", executeOk)>> ELSE <<>>)
            \o (IF executeOk THEN <<Call("commit", commitOk)>> ELSE <<>>)
        tryLogs == IF commitOk THEN <<Log("DEBUG", "inserted")>> ELSE <<>>
        \* except block, lines 69-77
        rollbackCalled == ~commitOk /\ got
        rollbackRaised == rollbackCalled /\ db.rollbackFail
        exceptCalls ==
            IF rollbackCalled THEN <<Call("rollback", ~rollbackRaised)>> ELSE <<>>
        exceptLogs ==
            IF commitOk \/ rollbackRaised THEN <<>>
            ELSE IF avail > 0 /\ IsSchemaError(db.errKind)
                 THEN <<Log("ERROR", "db_schema_error")>>
                 ELSE <<Log("ERROR", "db_insert_error")>>
        \* finally block, lines 79-82
        connected == got /\ db.connected
        cursorCloseRaised == connected /\ (~cursorOk \/ db.cursorCloseFail)
        connClosed == Released(got, connected, cursorCloseRaised)
        connCloseRaised == connClosed /\ db.connCloseFail
        finallyCalls ==
            (IF got THEN <<Call("is_connected", connected)>> ELSE <<>>)
            \o (IF connected THEN <<Call("cursor.close", ~cursorCloseRaised)>>
                ELSE <<>>)
            \o (IF connClosed THEN <<Call("conn.close", ~connCloseRaised)>>
                ELSE <<>>)
    IN  [avail |-> IF got /\ ~connClosed THEN avail - 1 ELSE avail,
         rows |-> StoredRows(rows, [device_id |-> device_id,
                                    value_payload |-> value,
                                    mqtt_topic |-> full_topic],
                             executeOk, commitOk),
         logs |-> tryLogs \o exceptLogs,
         calls |-> tryCalls \o exceptCalls \o finallyCalls,
         raised |-> rollbackRaised \/ cursorCloseRaised \/ connCloseRaised]

----------------------------------------------------------------------------
(* MQTT callbacks, lines 85-119 *)

\* variant: the subscription is issued whatever the result code
on_connect_always(rc, subs) ==
    [subs |-> Append(subs, MQTT_TOPIC),
     logs |-> IF rc = 0
              THEN <<Log("INFO", "connected"), Log("INFO", "subscribed")>>
              ELSE <<Log("ERROR", "connect_failed")>>]

\* on_connect: the logger calls and the subscribe calls after the callback
on_connect(rc, subs) ==
    IF rc = 0
    THEN [subs |-> Append(subs, MQTT_TOPIC),
          logs |-> <<Log("INFO", "connected"), Log("INFO", "subscribed")>>]
    ELSE [subs |-> subs, logs |-> <<Log("ERROR", "connect_failed")>>]

\* variant: only the device id is tested
MissingField_deviceOnly(device_id, value_payload) == device_id = <<>>

\* variant: only the payload is tested
MissingField_payloadOnly(device_id, value_payload) == value_payload = <<>>

\* line 111: not device_id or not value_payload
MissingField(device_id, value_payload) ==
    device_id = <<>> \/ value_payload = <<>>

\* on_message for msg = [topic, payload].  msg.topic (line 96, before the
\* try statement) decodes the topic bytes of the message when it is read and
\* raises UnicodeDecodeError when they are not UTF-8.  inserts counts the calls of
\* insert_data, insertRaised says whether insert_data raised into the try
\* block of on_message, escaped whether an exception leaves on_message.
on_message(avail, rows, msg, db) ==
    LET topic == Utf8Decode(msg.topic)
        full_topic == topic.text
        skip(logs) == [avail |-> avail, rows |-> rows, logs |-> logs,
                       calls |-> <<>>, inserts |-> 0,
                       insertRaised |-> FALSE, escaped |-> FALSE]
    IN  IF ~topic.ok
        THEN [skip(<<>>) EXCEPT !.escaped = TRUE]
        ELSE IF ~StartsWith(full_topic, TOPIC_PREFIX)
        THEN skip(<<Log("DEBUG", "skip_topic")>>)
        ELSE LET device_id == SliceFrom(full_topic, Len(TOPIC_PREFIX))
                 decoded == Utf8Decode(msg.payload)
                 value_payload == decoded.text
             IN  IF ~decoded.ok
                 THEN skip(<<Log("ERROR", "processing_error")>>)
                 ELSE IF MissingField(device_id, value_payload)
                 THEN skip(<<Log("WARNING", "skip_empty")>>)
                 ELSE LET r == insert_data(avail, rows, device_id,
                                           value_payload, full_topic, db)
                      IN  [avail |-> r.avail, rows |-> r.rows,
                           logs |-> r.logs \o
                                    (IF r.raised
                                     THEN <<Log("ERROR", "processing_error")>>
                                     ELSE <<>>),
                           calls |-> r.calls, inserts |-> 1,
                           insertRaised |-> r.raised, escaped |-> FALSE]

----------------------------------------------------------------------------
(* Main program, lines 122-139 *)

NoCallback ==
    [kind |-> "none", topic |-> <<>>, payload |-> <<>>, rc |-> -1,
     logs |-> <<>>, calls |-> <<>>, inserts |-> 0, insertRaised |-> FALSE,
     escaped |-> FALSE]

Init ==
    /\ pc = "start"
    /\ exitStatus = -1
    /\ DB_POOL = [created |-> FALSE, avail |-> 0]
    /\ store = <<>>
    /\ subscribeCalls = <<>>
    /\ last = NoCallback

\* line 126: setup_db_pool()
SetupDbPool(ok) ==
    /\ pc = "start"
    /\ LET r == setup_db_pool(ok) IN
         /\ DB_POOL' = r.pool
         /\ pc' = IF r.exits THEN "exited" ELSE "pool_ready"
         /\ exitStatus' = r.status
         /\ last' = [NoCallback EXCEPT !.kind = "setup_db_pool", !.logs = r.logs]
    /\ UNCHANGED <<store, subscribeCalls>>

\* variant: loop_forever is called after the try statement, so that it is
\* entered even when the connect raised
MqttConnect_loopAnyway(ok) ==
    /\ pc = "pool_ready"
    /\ pc' = "loop"
    /\ exitStatus' = exitStatus
    /\ last' = [NoCallback EXCEPT
                  !.kind = "connect",
                  !.logs = IF ok THEN <<Log("INFO", "awaiting")>>
                           ELSE <<Log("ERROR", "mqtt_failed")>>]
    /\ UNCHANGED <<DB_POOL, store, subscribeCalls>>

\* lines 129-134: the client is built and mqtt_client.connect is called; when
\* it raises, the error is logged at line 139 and the program ends
MqttConnect(ok) ==
    /\ pc = "pool_ready"
    /\ pc' = IF ok THEN "loop" ELSE "done"
    /\ exitStatus' = IF ok THEN exitStatus ELSE 0
    /\ last' = [NoCallback EXCEPT
                  !.kind = "connect",
                  !.logs = IF ok THEN <<Log("INFO", "awaiting")>>
                           ELSE <<Log("ERROR", "mqtt_failed")>>]
    /\ UNCHANGED <<DB_POOL, store, subscribeCalls>>

\* loop_forever dispatches a connect callback
OnConnect(rc) ==
    /\ pc = "loop"
    /\ Len(subscribeCalls) < MaxSubscribes
    /\ LET r == on_connect(rc, subscribeCalls) IN
         /\ subscribeCalls' = r.subs
         /\ last' = [NoCallback EXCEPT !.kind = "on_connect", !.rc = rc,
                                       !.logs = r.logs]
    /\ UNCHANGED <<pc, exitStatus, DB_POOL, store>>

\* loop_forever dispatches one message callback and waits for it to return;
\* an exception leaving the callback leaves loop_forever too and is caught
\* at line 138, after which the program ends
OnMessage(msg, db) ==
    /\ pc = "loop"
    /\ subscribeCalls # <<>>
    /\ Len(store) < MaxRows
    /\ \E r \in {on_message(DB_POOL.avail, store, msg, db)} :
         /\ DB_POOL' = [DB_POOL EXCEPT !.avail = r.avail]
         /\ store' = r.rows
         /\ pc' = IF r.escaped THEN "done" ELSE "loop"
         /\ exitStatus' = IF r.escaped THEN 0 ELSE exitStatus
         /\ last' = [kind |-> "on_message", topic |-> msg.topic,
                     payload |-> msg.payload, rc |-> -1,
                     logs |-> r.logs \o (IF r.escaped
                                         THEN <<Log("ERROR", "mqtt_failed")>>
                                         ELSE <<>>),
                     calls |-> r.calls, inserts |-> r.inserts,
                     insertRaised |-> r.insertRaised, escaped |-> r.escaped]
    /\ UNCHANGED subscribeCalls

\* The database is consulted only by insert_data: for a message that never
\* reaches it every behaviour gives the same step, which is taken once.
BehavioursFor(msg) ==
    IF on_message(POOL_SIZE, <<>>, msg, Healthy).inserts = 0
    THEN {Healthy}
    ELSE DbBehaviours

Next ==
    \/ \E ok \in BOOLEAN : SetupDbPool(ok)
    \/ \E ok \in BOOLEAN : MqttConnect(ok)
    \/ \E rc \in ResultCodes : OnConnect(rc)
    \/ \E msg \in Messages : \E db \in BehavioursFor(msg) : OnMessage(msg, db)

Spec == Init /\ [][Next]_vars

----------------------------------------------------------------------------
(* Properties.  Expected values are written out as literals, so that they *)
(* do not depend on the operators they are compared with.                 *)

\* the device ids "rover_A" and "a/b"
KnownDeviceIds == { <<114,111,118,101,114,95,65>>, <<97,47,98>> }

\* payload bytes with the text they encode: "24.5", and " " followed by U+00E9
KnownTexts ==
    { [bytes |-> <<50,52,46,53>>, text |-> <<50,52,46,53>>],
      [bytes |-> <<32,195,169>>, text |-> <<32,233>>] }

\* the topic t does not begin with the 14 characters of "roverCommsLog/"
LacksPrefix(t) ==
    \/ Len(t) < 14
    \/ \E i \in 1..14 :
         t[i] # <<114,111,118,101,114,67,111,109,109,115,76,111,103,47>>[i]

HasCall(calls, op, ok) ==
    \E i \in DOMAIN calls : calls[i].op = op /\ calls[i].ok = ok

CountCalls(calls, op) == Cardinality({i \in DOMAIN calls : calls[i].op = op})

\* C1: no exception leaves on_message, whatever the topic, the payload and
\* the step of the insert that fails: after every message callback the
\* network loop is still running and the process has not ended.
C1_NoErrorEscapes ==
    last.kind = "on_message" =>
        /\ ~last.escaped
        /\ pc = "loop"
        /\ exitStatus = -1

\* C2: between two message callbacks no pool connection is checked out.
C2_ConnectionAlwaysReleased ==
    DB_POOL.created => DB_POOL.avail = 5

\* C3: a message whose topic lacks the prefix causes no insert, acquires no
\* connection and leaves the pool and the table unchanged.
C3_NoPrefixNoEffect ==
    [][ (last'.kind = "on_message" /\ LacksPrefix(last'.topic)) =>
          /\ last'.inserts = 0
          /\ last'.calls = <<>>
          /\ DB_POOL' = DB_POOL
          /\ store' = store ]_vars

\* "x/roverCommsLog/a" was delivered with a payload that is valid text
C3_Witness ==
    /\ last.kind = "on_message"
    /\ last.topic = <<120,47>> \o TOPIC_PREFIX \o <<97>>
    /\ last.payload = <<50,52,46,53>>
    /\ last.inserts = 0

\* C4: a message on prefix + X (X not empty) whose payload decodes to the
\* non-empty text P, handled while every database call succeeds, adds
\* exactly one row (X, P, full topic) at the end of the table.
C4_ExactRowStored ==
    [][ \A X \in KnownDeviceIds, P \in KnownTexts :
          ( /\ last'.kind = "on_message"
            /\ last'.topic = TOPIC_PREFIX \o X
            /\ last'.payload = P.bytes
            /\ \A i \in DOMAIN last'.calls : last'.calls[i].ok ) =>
          store' = Append(store, [device_id |-> X,
                                  value_payload |-> P.text,
                                  mqtt_topic |-> last'.topic]) ]_vars

\* "roverCommsLog/a/b" with b" \xc3\xa9" was stored through seven
\* successful database calls
C4_Witness ==
    /\ last.kind = "on_message"
    /\ last.topic = TOPIC_PREFIX \o <<97,47,98>>
    /\ last.payload = <<32,195,169>>
    /\ Len(last.calls) = 7
    /\ \A i \in DOMAIN last.calls : last.calls[i].ok
    /\ store # <<>>
    /\ store[Len(store)].value_payload = <<32,233>>

\* C5: a message on the prefix alone is discarded: no insert, no
\* connection acquired, no row stored.
C5_EmptyDeviceIdDiscarded ==
    [][ (last'.kind = "on_message" /\ last'.topic = TOPIC_PREFIX) =>
          /\ last'.inserts = 0
          /\ last'.calls = <<>>
          /\ DB_POOL' = DB_POOL
          /\ store' = store ]_vars

\* the prefix alone was delivered with a payload that is valid text
C5_Witness ==
    /\ last.kind = "on_message"
    /\ last.topic = TOPIC_PREFIX
    /\ last.payload = <<50,52,46,53>>
    /\ last.inserts = 0

\* C6: a message on prefix + X (X not empty) with an empty payload stores
\* no row, attempts no insert and produces a log entry of level WARNING.
C6_EmptyPayloadDiscarded ==
    [][ \A X \in KnownDeviceIds :
          ( /\ last'.kind = "on_message"
            /\ last'.topic = TOPIC_PREFIX \o X
            /\ last'.payload = <<>> ) =>
          /\ last'.inserts = 0
          /\ last'.calls = <<>>
          /\ DB_POOL' = DB_POOL
          /\ store' = store
          /\ \E i \in DOMAIN last'.logs :
               /\ last'.logs[i].level = "WARNING"
               /\ Emitted(last'.logs[i]) ]_vars

\* "roverCommsLog/rover_A" was delivered with an empty payload
C6_Witness ==
    /\ last.kind = "on_message"
    /\ last.topic = TOPIC_PREFIX \o <<114,111,118,101,114,95,65>>
    /\ last.payload = <<>>
    /\ last.logs # <<>>

\* C7: when pool creation fails the process has exited with a non-zero
\* status and nothing has happened since (no broker connect, no
\* subscription, no callback); and the broker connect, the callbacks and
\* the end of the program are only reached with the pool created.
C7_PoolBeforeBroker ==
    /\ pc = "exited" =>
         /\ exitStatus = 1
         /\ ~DB_POOL.created
         /\ last.kind = "setup_db_pool"
         /\ subscribeCalls = <<>>
         /\ store = <<>>
    /\ pc \in {"pool_ready", "loop", "done"} => DB_POOL.created
    /\ last.kind \in {"connect", "on_connect", "on_message"} => DB_POOL.created
    /\ ~DB_POOL.created => pc \in {"start", "exited"}

\* pool creation has failed
C7_Witness ==
    /\ pc = "exited"
    /\ ~DB_POOL.created

\* C8: one message causes at most one insert attempt; an insert that fails
\* after a connection was acquired calls rollback and stores nothing; a
\* row is stored only when both execute and commit succeeded.
C8_RollbackNoRetry ==
    [][ last'.kind = "on_message" =>
          LET c == last'.calls IN
          /\ last'.inserts <= 1
          /\ CountCalls(c, "get_connection") <= 1
          /\ CountCalls(c, "execute") <= 1
          /\ CountCalls(c, "commit") <= 1
          /\ ( /\ HasCall(c, "get_connection", TRUE)
               /\ \/ HasCall(c, "cursor", FALSE)
                  \/ HasCall(c, "execute", FALSE)
                  \/ HasCall(c, "commit", FALSE) ) =>
               /\ CountCalls(c, "rollback") = 1
               /\ store' = store
          /\ store' # store =>
               /\ HasCall(c, "execute", TRUE)
               /\ HasCall(c, "commit", TRUE) ]_vars

\* an insert whose commit failed has been rolled back
C8_Witness ==
    /\ last.kind = "on_message"
    /\ HasCall(last.calls, "execute", TRUE)
    /\ HasCall(last.calls, "commit", FALSE)
    /\ HasCall(last.calls, "rollback", TRUE)

\* C9: the table only grows at its end, by at most one row per message
\* callback, and that row is the row of the message being handled: the
\* rows are a subsequence of the delivered messages, in delivery order.
C9_RowsInDeliveryOrder ==
    [][ \/ store' = store
        \/ /\ last'.kind = "on_message"
           /\ Len(store') = Len(store) + 1
           /\ SubSeq(store', 1, Len(store)) = store
           /\ LET row == store'[Len(store')] IN
                /\ row.mqtt_topic = last'.topic
                /\ row.mqtt_topic = TOPIC_PREFIX \o row.device_id
                /\ \E P \in KnownTexts :
                     P.bytes = last'.payload /\ P.text = row.value_payload
       ]_vars

\* two different messages have been stored, the later one last
C9_Witness ==
    /\ Len(store) = 2
    /\ store[1] # store[2]
    /\ last.kind = "on_message"
    /\ last.topic = store[2].mqtt_topic
    /\ HasCall(last.calls, "commit", TRUE)

\* C10: a connect callback subscribes to the filter roverCommsLog/# when
\* and only when its result code is 0; with another code it logs an error
\* and does nothing else.
C10_SubscribeIffSuccess ==
    [][ last'.kind = "on_connect" =>
          /\ UNCHANGED <<pc, exitStatus, DB_POOL, store>>
          /\ IF last'.rc = 0
             THEN subscribeCalls' = Append(subscribeCalls, "roverCommsLog/#")
             ELSE /\ subscribeCalls' = subscribeCalls
                  /\ last'.logs = <<[level |-> "ERROR",
                                     event |-> "connect_failed"]>> ]_vars

\* after a first successful connect, a reconnect was refused with code 5
C10_Witness ==
    /\ last.kind = "on_connect"
    /\ last.rc = 5
    /\ Len(subscribeCalls) = 1

\* C11: when the initial broker connect fails the failure is logged as an
\* error and the program ends: the network loop is never entered, so no
\* callback runs, nothing is subscribed and nothing is stored afterwards.
C11_ConnectFailureEndsProgram ==
    /\ ( /\ last.kind = "connect"
         /\ \E i \in DOMAIN last.logs : last.logs[i].level = "ERROR" ) =>
         /\ pc = "done"
         /\ subscribeCalls = <<>>
         /\ store = <<>>
    /\ (pc = "done" /\ ~last.escaped) =>
         /\ last.kind = "connect"
         /\ last.logs = <<[level |-> "ERROR", event |-> "mqtt_failed"]>>
    /\ (last.kind \in {"on_connect", "on_message"} /\ ~last.escaped) =>
         pc = "loop"

\* the initial connect has failed, with the pool created
C11_Witness ==
    /\ pc = "done"
    /\ last.kind = "connect"
    /\ DB_POOL.created

\* C12: insert_data swallows every failure: whatever step of the insert
\* fails, insert_data returns to on_message without raising.
C12_InsertSwallowsEveryFailure ==
    last.kind = "on_message" => ~last.insertRaised

\* C13: the pipeline stops at the first failed step in the order Filter,
\* ExtractDeviceId, DecodePayload, Insert: a message on the prefix alone
\* (empty device id) is discarded with a warning whatever its payload,
\* bytes that are not UTF-8 included.
C13_EmptyDeviceIdWarnsForEveryPayload ==
    (last.kind = "on_message" /\ last.topic = TOPIC_PREFIX) =>
        /\ last.logs = <<[level |-> "WARNING", event |-> "skip_empty"]>>
        /\ last.inserts = 0

\* C14: every delivered message ends in exactly one of four outcomes:
\* discarded with a DEBUG entry (topic lacks the prefix), discarded with a
\* WARNING entry (empty device id or empty payload), dropped with an ERROR
\* entry (a database call of the insert failed), or stored as one row; a
\* message that is stored is not also logged as discarded or dropped.
C14_ExactlyOneOutcome ==
    [][ last'.kind = "on_message" =>
          LET logs == last'.logs
              HasLevel(level) == \E i \in DOMAIN logs : logs[i].level = level
              debugDiscard ==
                  /\ LacksPrefix(last'.topic)
                  /\ logs = <<[level |-> "DEBUG", event |-> "skip_topic"]>>
                  /\ store' = store
              warningDiscard ==
                  /\ last'.topic = TOPIC_PREFIX \/ last'.payload = <<>>
                  /\ logs = <<[level |-> "WARNING", event |-> "skip_empty"]>>
                  /\ store' = store
              errorDrop ==
                  /\ \E i \in DOMAIN last'.calls : ~last'.calls[i].ok
                  /\ HasLevel("ERROR")
                  /\ store' = store
              inserted ==
                  /\ Len(store') = Len(store) + 1
                  /\ ~HasLevel("WARNING")
                  /\ ~HasLevel("ERROR")
              N(b) == IF b THEN 1 ELSE 0
          IN  N(debugDiscard) + N(warningDiscard) + N(errorDrop) + N(inserted)
                = 1 ]_vars

\* C15: a message on prefix + X (X not empty) whose payload is not valid
\* UTF-8 is dropped inside on_message: the decode error is caught and
\* logged as an error, no insert is attempted, no connection is acquired
\* and no row is stored.
C15_UndecodablePayloadDropped ==
    [][ \A X \in KnownDeviceIds, B \in { <<255>>, <<50,195>> } :
          ( /\ last'.kind = "on_message"
            /\ last'.topic = TOPIC_PREFIX \o X
            /\ last'.payload = B ) =>
          /\ ~last'.escaped
          /\ pc' = "loop"
          /\ last'.logs = <<[level |-> "ERROR", event |-> "processing_error"]>>
          /\ last'.inserts = 0
          /\ last'.calls = <<>>
          /\ DB_POOL' = DB_POOL
          /\ store' = store ]_vars

\* "roverCommsLog/rover_A" was delivered with the truncated b"2\xc3"
C15_Witness ==
    /\ last.kind = "on_message"
    /\ last.topic = TOPIC_PREFIX \o <<114,111,118,101,114,95,65>>
    /\ last.payload = <<50,195>>
    /\ last.logs # <<>>
    /\ last.inserts = 0

\* C16: database failures never disable ingestion for good: as long as no
\* insert has succeeded (the table is empty), whatever inserts have failed,
\* the pool of five connections is not exhausted, and the message
\* roverCommsLog/rover_A "24.5" delivered now, with the database healthy,
\* acquires a connection and is stored as a row.
C16_PoolNeverExhausted ==
    (pc = "loop" /\ DB_POOL.created /\ store = <<>>) =>
        /\ DB_POOL.avail > 0
        /\ on_message(DB_POOL.avail, store,
                      [topic |-> TOPIC_PREFIX \o <<114,111,118,101,114,95,65>>,
                       payload |-> <<50,52,46,53>>],
                      Healthy).rows
             = <<[device_id |-> <<114,111,118,101,114,95,65>>,
                  value_payload |-> <<50,52,46,53>>,
                  mqtt_topic |-> TOPIC_PREFIX \o <<114,111,118,101,114,95,65>>]>>

====
